---- MODULE Spec2Model ----
(***************************************************************************)
(* A model of the elevator simulator: the engine of                        *)
(* building_elevator_engine.py, the dispatcher of elevator_dispatcher.py   *)
(* and the records of models.py.                                           *)
(*                                                                         *)
(* Python objects shared by reference (the ElevatorStop objects of an      *)
(* elevator's plan, which the dispatcher's candidate plans alias) are      *)
(* modelled by a heap: a sequence of stop records indexed by reference; a   *)
(* plan under construction is a sequence of references.  A persisted plan  *)
(* is a sequence of stop records.  A request is named by its position in   *)
(* the engine's elevator_requests list, which stands for its unique id.    *)
(***************************************************************************)
EXTENDS Integers, Sequences, FiniteSets, TLC

\* ------------------------------------------------------------- bounds
NumFloors == 3          \* source and target floors are drawn from 1..NumFloors
MaxElevators == 2       \* number_of_elevators is drawn from 1..MaxElevators
MaxCapacity == 2        \* max_capacity_of_elevator is drawn from 1..MaxCapacity
MaxRequests == 3        \* rows of input_df: 1..MaxRequests
MaxCallTime == 3        \* the "time" column of input_df lies in 0..MaxCallTime
MaxPlanLen == 3         \* a plan passed to a single method has 0..MaxPlanLen stops
ScenarioFloors == 10    \* a scenario row has its floors in 1..ScenarioFloors
ScenarioCapacity == 5   \* the capacity of the one elevator of a scenario
MaxSplitLen == 4        \* a plan passed to split_plan_into_ordered_subplans: 0..MaxSplitLen stops

\* ---------------------------------------------------------- constants
UNSET == -1             \* CallRequest.pickup_time / dropoff_time default
START_FLOOR == 1        \* Building.__init__: current_floor=1

Floors == 1..NumFloors

\* ------------------------------------------------------------ helpers
\* np.sign on integers
sign(x) == IF x > 0 THEN 1 ELSE IF x < 0 THEN -1 ELSE 0

\* abs on integers
abs(x) == IF x < 0 THEN -x ELSE x

\* set(range(a, b, d)) for d = 1 or d = -1
range_set(a, b, d) == IF d = 1 THEN {x \in a..(b - 1) : TRUE}
                      ELSE {x \in (b + 1)..a : TRUE}

\* The elements of a finite set of integers in ascending order.
RECURSIVE set_to_seq(_)
set_to_seq(S) == IF S = {} THEN <<>>
                 ELSE LET m == CHOOSE x \in S : \A y \in S : x <= y
                      IN <<m>> \o set_to_seq(S \ {m})

\* list.remove(x): the list without the first occurrence of x (x is in it).
list_remove(s, x) ==
    LET k == CHOOSE i \in 1..Len(s) : s[i] = x /\ \A j \in 1..(i - 1) : s[j] # x
    IN SubSeq(s, 1, k - 1) \o SubSeq(s, k + 1, Len(s))

\* ElevatorStop(floor, pickup_requests=[], dropoff_requests=[])
ElevatorStop(floor) == [floor |-> floor, pickup_requests |-> {}, dropoff_requests |-> {}]

\* The floors of a plan of references, read through the heap.
plan_floors(plan, heap) == [i \in 1..Len(plan) |-> heap[plan[i]].floor]

\* The stop records of a plan of references.
plan_stops(plan, heap) == [i \in 1..Len(plan) |-> heap[plan[i]]]

\* The floors of a persisted plan.
stop_floors(stops) == [i \in 1..Len(stops) |-> stops[i].floor]

\* ------------------------------------------------- ElevatorDispatcher
\* coalesce_plan's while loop: i is the 0-based loop index; a merge writes the
\* unions into the stop object at i and marks i + 1 for removal.
RECURSIVE coalesce_scan(_, _, _, _)
coalesce_scan(plan, heap, i, remove) ==
    IF ~(i < Len(plan) - 1) THEN [heap |-> heap, remove |-> remove]
    ELSE LET a == plan[i + 1]
             b == plan[i + 2]
         IN IF heap[a].floor = heap[b].floor
            THEN coalesce_scan(plan,
                     [heap EXCEPT ![a] =
                         [floor |-> heap[a].floor,
                          pickup_requests |-> heap[a].pickup_requests \cup heap[b].pickup_requests,
                          dropoff_requests |-> heap[a].dropoff_requests \cup heap[b].dropoff_requests]],
                     i + 2, remove \cup {i + 1})
            ELSE coalesce_scan(plan, heap, i + 1, remove)

\* The list without the (0-based) indices marked for removal.
RECURSIVE delete_indices(_, _, _)
delete_indices(plan, remove, i) ==
    IF i >= Len(plan) THEN <<>>
    ELSE (IF i \in remove THEN <<>> ELSE <<plan[i + 1]>>) \o delete_indices(plan, remove, i + 1)

\* The coalesced list with index 0 marked for removal from the start.
coalesce_plan_removing_first(plan, heap) ==
    [plan |-> delete_indices(plan, coalesce_scan(plan, heap, 0, {0}).remove, 0),
     heap |-> coalesce_scan(plan, heap, 0, {0}).heap]

\* coalesce_plan(elevator_plan): the coalesced list and the heap it leaves.
coalesce_plan(plan, heap) ==
    LET r == coalesce_scan(plan, heap, 0, {})
    IN [plan |-> delete_indices(plan, r.remove, 0), heap |-> r.heap]

\* check_capacity(elevator, new_elevator_plan), on the stop records.
RECURSIVE check_capacity_from(_, _, _, _)
check_capacity_from(stops, i, count, capacity) ==
    IF i > Len(stops) THEN TRUE
    ELSE LET c == count + Cardinality(stops[i].pickup_requests)
                        - Cardinality(stops[i].dropoff_requests)
         IN IF c > capacity THEN FALSE
            ELSE check_capacity_from(stops, i + 1, c, capacity)

\* The capacity check started from an empty elevator.
check_capacity_from_empty(elevator, stops) ==
    check_capacity_from(stops, 1, 0, elevator.capacity)

check_capacity(elevator, stops) ==
    check_capacity_from(stops, 1, Len(elevator.passengers), elevator.capacity)

\* The inflection loop that sees no change of direction.
no_inflection_points(floors, i, dir, acc) == acc

\* split_plan_into_ordered_subplans: the inflection loop, i the 0-based index.
RECURSIVE inflection_points(_, _, _, _)
inflection_points(floors, i, dir, acc) ==
    IF i > Len(floors) - 2 THEN acc
    ELSE LET d == sign(floors[i + 2] - floors[i + 1])
         IN IF d # dir THEN inflection_points(floors, i + 1, d, Append(acc, i + 1))
            ELSE inflection_points(floors, i + 1, dir, acc)

\* The slices plan[start:ind] with start = ind after each: no stop in two slices.
RECURSIVE slices_without_overlap(_, _, _, _)
slices_without_overlap(plan, points, k, start) ==
    IF k > Len(points) THEN <<>>
    ELSE <<SubSeq(plan, start + 1, points[k])>>
             \o slices_without_overlap(plan, points, k + 1, points[k])

\* The slices plan[start:ind] for the inflection points, start = ind - 1 after each.
RECURSIVE slices(_, _, _, _)
slices(plan, points, k, start) ==
    IF k > Len(points) THEN <<>>
    ELSE <<SubSeq(plan, start + 1, points[k])>> \o slices(plan, points, k + 1, points[k] - 1)

\* The split with the direction unknown before the loop (0 instead of the
\* direction of the first two stops).
split_plan_from_no_direction(plan, floors) ==
    IF Len(plan) < 2 THEN [err |-> "DispatchError", subplans |-> <<>>]
    ELSE [err |-> "",
          subplans |-> slices(plan, Append(inflection_points(floors, 1, 0, <<>>), Len(plan)),
                              1, 0)]

\* The split without the check of the size: a short plan is one subplan.
split_plan_without_size_check(plan, floors) ==
    IF Len(plan) < 2 THEN [err |-> "", subplans |-> <<plan>>]
    ELSE [err |-> "",
          subplans |-> slices(plan,
                              Append(inflection_points(floors, 1, sign(floors[2] - floors[1]),
                                                       <<>>), Len(plan)),
                              1, 0)]

split_plan_into_ordered_subplans(plan, floors) ==
    IF Len(plan) < 2 THEN [err |-> "DispatchError", subplans |-> <<>>]
    ELSE LET points == Append(inflection_points(floors, 1, sign(floors[2] - floors[1]), <<>>),
                              Len(plan))
         IN [err |-> "", subplans |-> slices(plan, points, 1, 0)]

\* find_matching_subplan_for_request: the index (1-based) of the first subplan
\* of the request's direction that covers it, 0 for (None, None); range() with
\* step 0 raises ValueError.
RECURSIVE find_matching_from(_, _, _, _)
find_matching_from(subfloors, i, source, target) ==
    IF i > Len(subfloors) THEN [err |-> "", loc |-> 0]
    ELSE LET first == subfloors[i][1]
             last == subfloors[i][Len(subfloors[i])]
             subplan_dir == sign(last - first)
             request_dir == sign(target - source)
         IN IF subplan_dir = 0 THEN [err |-> "ValueError", loc |-> 0]
            ELSE IF subplan_dir = request_dir
                    /\ range_set(source, target, request_dir) \subseteq range_set(first, last, subplan_dir)
                 THEN [err |-> "", loc |-> i]
                 ELSE find_matching_from(subfloors, i + 1, source, target)

find_matching_subplan_for_request(subfloors, source, target) ==
    find_matching_from(subfloors, 1, source, target)

\* list.sort(key=floor, reverse=...): a stable sort, by insertion.
RECURSIVE sort_by_floor(_, _, _)
sort_by_floor(plan, heap, reverse) ==
    IF plan = <<>> THEN <<>>
    ELSE LET n == Len(plan)
             s == sort_by_floor(SubSeq(plan, 1, n - 1), heap, reverse)
             x == plan[n]
             k == Cardinality({j \in 1..Len(s) :
                      IF reverse THEN heap[s[j]].floor >= heap[x].floor
                      ELSE heap[s[j]].floor <= heap[x].floor})
         IN SubSeq(s, 1, k) \o <<x>> \o SubSeq(s, k + 1, Len(s))

\* The concatenation of the subplans, the matching one replaced.
RECURSIVE rejoin(_, _, _, _)
rejoin(subplans, matching_subplan, loc, i) ==
    IF i > Len(subplans) THEN <<>>
    ELSE (IF i = loc THEN matching_subplan ELSE subplans[i])
         \o rejoin(subplans, matching_subplan, loc, i + 1)

\* The stop objects a call of build_updated_elevator_plan_for_request_in_elevator
\* works on.  With n = len(elevator.elevator_plan), references 1..n are the stop
\* objects of the elevator's plan, n + 1 is the stop made for the current floor,
\* n + 2 is source_stop and n + 3 is target_stop.
stop_objects(elevator, source, target) ==
    elevator.elevator_plan \o <<ElevatorStop(elevator.current_floor),
                                ElevatorStop(source), ElevatorStop(target)>>

\* current_floor_stop_repr: empty when the current floor is the first stop.
current_floor_stop_repr(elevator) ==
    IF elevator.current_floor = elevator.elevator_plan[1].floor THEN <<>>
    ELSE <<Len(elevator.elevator_plan) + 1>>

\* current_elevator_plan: the plan, after the stop of the current floor if any.
current_elevator_plan(elevator) ==
    current_floor_stop_repr(elevator) \o [i \in 1..Len(elevator.elevator_plan) |-> i]

\* An idle elevator's plan that starts with a stop at its current floor.
plan_from_current_floor(sref, tref) == <<sref - 1, sref, tref>>

\* new_elevator_plan for an empty plan: [source_stop, target_stop].
plan_for_idle_elevator(sref, tref) == <<sref, tref>>

\* elevator.elevator_plan + [source_stop, target_stop]
plan_with_request_at_end(n, sref, tref) == [i \in 1..n |-> i] \o <<sref, tref>>

\* The removal of the current floor repr from the head of the joined plan.
remove_current_floor_repr(repr, plan, heap, sref) ==
    IF repr # <<>>
       /\ heap[plan[1]] = heap[repr[1]]
       /\ ~(heap[sref].floor = heap[repr[1]].floor)
    THEN Tail(plan)
    ELSE plan

\* The matching subplan with the request, sorted against the request's direction.
matching_subplan_sorted_backwards(subplan, heap, sref, tref) ==
    coalesce_plan(sort_by_floor(subplan \o <<sref, tref>>, heap,
                                sign(heap[tref].floor - heap[sref].floor) # -1),
                  heap)

\* matching_subplan += [source_stop, target_stop], sorted in the request's
\* direction and coalesced.
matching_subplan_with_request(subplan, heap, sref, tref) ==
    coalesce_plan(sort_by_floor(subplan \o <<sref, tref>>, heap,
                                sign(heap[tref].floor - heap[sref].floor) = -1),
                  heap)

\* new_elevator_plan: the subplans rejoined, the matching one replaced, coalesced.
rejoined_plan(sorted_subplans, matching_subplan, loc) ==
    coalesce_plan(rejoin(sorted_subplans, matching_subplan.plan, loc, 1), matching_subplan.heap)

\* new_elevator_plan after the removal of the current floor repr.
plan_without_repr(repr, joined, sref) ==
    [plan |-> remove_current_floor_repr(repr, joined.plan, joined.heap, sref),
     heap |-> joined.heap]

\* The insertion of the request into the matching subplan: append, sort in the
\* request's direction, coalesce, rejoin the subplans, coalesce, remove the
\* current floor repr.
plan_with_request_in_subplan(repr, sorted_subplans, loc, heap, sref, tref) ==
    plan_without_repr(repr,
        rejoined_plan(sorted_subplans,
            matching_subplan_with_request(sorted_subplans[loc], heap, sref, tref), loc),
        sref)

\* A plan the call returns, with the heap it leaves behind.
returned_plan(c) == [err |-> "", plan |-> c.plan, heap |-> c.heap]

\* The capacity check of the plan with the request inserted: a plan over the
\* capacity is replaced by elevator.elevator_plan + [source_stop, target_stop].
plan_within_capacity(elevator, inserted, sref, tref) ==
    IF ~check_capacity(elevator, plan_stops(inserted.plan, inserted.heap))
    THEN returned_plan(coalesce_plan(
             plan_with_request_at_end(Len(elevator.elevator_plan), sref, tref), inserted.heap))
    ELSE returned_plan(inserted)

\* The request placed according to the matching subplan found, if any.
plan_for_matching_subplan(elevator, heap, sorted_subplans, found, sref, tref) ==
    IF found.err # "" THEN [err |-> found.err, plan |-> <<>>, heap |-> heap]
    ELSE IF found.loc = 0
    THEN returned_plan(coalesce_plan(
             plan_with_request_at_end(Len(elevator.elevator_plan), sref, tref), heap))
    ELSE plan_within_capacity(elevator,
             plan_with_request_in_subplan(current_floor_stop_repr(elevator),
                 sorted_subplans, found.loc, heap, sref, tref),
             sref, tref)

\* The request placed in the working plan split into its subplans.
plan_in_split_plan(elevator, heap, split, sref, tref) ==
    IF split.err # "" THEN [err |-> split.err, plan |-> <<>>, heap |-> heap]
    ELSE plan_for_matching_subplan(elevator, heap, split.subplans,
             find_matching_subplan_for_request(
                 [i \in 1..Len(split.subplans) |-> plan_floors(split.subplans[i], heap)],
                 heap[sref].floor, heap[tref].floor),
             sref, tref)

\* build_updated_elevator_plan_for_request_in_elevator(elevator, request): the
\* new plan (references), the heap the call leaves behind and the exception it
\* ended in, if any.
build_updated_elevator_plan_for_request_in_elevator(elevator, source, target) ==
    LET n == Len(elevator.elevator_plan)
        sref == n + 2
        tref == n + 3
        heap0 == stop_objects(elevator, source, target)
    IN IF n = 0
       THEN [err |-> "", plan |-> plan_for_idle_elevator(sref, tref), heap |-> heap0]
       ELSE IF n = 1 /\ current_floor_stop_repr(elevator) = <<>>
       THEN [err |-> "", plan |-> plan_with_request_at_end(n, sref, tref), heap |-> heap0]
       ELSE plan_in_split_plan(elevator, heap0,
                split_plan_into_ordered_subplans(current_elevator_plan(elevator),
                    plan_floors(current_elevator_plan(elevator), heap0)),
                sref, tref)

\* get_wait_time_for_request: i is the 0-based loop index.
RECURSIVE wait_time_from(_, _, _, _, _)
wait_time_from(floors, current_floor, source, i, total) ==
    IF ~(i < Len(floors)) THEN [err |-> "DispatchError", time |-> 0]
    ELSE LET prev_floor == IF i = 0 THEN current_floor ELSE floors[i]
             t == total + abs(floors[i + 1] - prev_floor)
         IN IF floors[i + 1] = source THEN [err |-> "", time |-> t]
            ELSE wait_time_from(floors, current_floor, source, i + 1, t + 1)

\* The wait time with a tick of dwell counted for the pickup stop too.
wait_time_with_dwell_at_source(source, floors, current_floor) ==
    wait_time_from(floors, current_floor, source, 0, 1)

get_wait_time_for_request(source, floors, current_floor) ==
    wait_time_from(floors, current_floor, source, 0, 0)

\* get_travel_time_for_request: i is the 0-based loop index.
RECURSIVE travel_time_from(_, _, _, _, _, _)
travel_time_from(floors, source, target, i, pickup_done, total) ==
    IF ~(i < Len(floors)) THEN [err |-> "DispatchError", time |-> 0]
    ELSE LET t == IF pickup_done THEN total + abs(floors[i + 1] - floors[i]) + 1 ELSE total
         IN IF floors[i + 1] = target THEN [err |-> "", time |-> t - 1]
            ELSE travel_time_from(floors, source, target, i + 1,
                                  pickup_done \/ floors[i + 1] = source, t)

get_travel_time_for_request(source, target, floors) ==
    travel_time_from(floors, source, target, 0, FALSE, 0)

\* get_total_time_for_request: wait first, then travel.
get_total_time_for_request(current_floor, floors, source, target) ==
    LET w == get_wait_time_for_request(source, floors, current_floor)
        t == get_travel_time_for_request(source, target, floors)
    IN IF w.err # "" THEN w
       ELSE IF t.err # "" THEN t
       ELSE [err |-> "", time |-> w.time + t.time]

\* The greatest 0-based index i <= from with floors[i] = floor, -1 if none
\* (the downward while loops of put_request_id_in_elevator_plan).
RECURSIVE last_index_of(_, _, _)
last_index_of(floors, floor, from) ==
    IF from < 0 THEN -1
    ELSE IF floors[from + 1] = floor THEN from
    ELSE last_index_of(floors, floor, from - 1)

\* The request attached as a dropoff to every stop at the target floor, and as
\* a pickup as put_request_id_in_elevator_plan does.
put_request_id_at_every_target_stop(id, source, target, plan, heap) ==
    LET floors == plan_floors(plan, heap)
        target_index == last_index_of(floors, target, Len(plan) - 1)
        heap1 == [r \in 1..Len(heap) |->
                     IF \E j \in 1..Len(plan) : plan[j] = r /\ heap[r].floor = target
                     THEN [heap[r] EXCEPT !.dropoff_requests = @ \cup {id}]
                     ELSE heap[r]]
    IN IF target_index <= 0 THEN [err |-> "DispatchError", plan |-> plan, heap |-> heap1]
       ELSE LET source_index == last_index_of(floors, source, target_index)
            IN [err |-> "", plan |-> plan,
                heap |-> IF source_index < 0 THEN heap1
                         ELSE [heap1 EXCEPT ![plan[source_index + 1]].pickup_requests = @ \cup {id}]]

\* The request attached to its dropoff stop only.
put_request_id_at_target_only(id, source, target, plan, heap) ==
    LET floors == plan_floors(plan, heap)
        target_index == last_index_of(floors, target, Len(plan) - 1)
    IN IF target_index <= 0 THEN [err |-> "DispatchError", plan |-> plan, heap |-> heap]
       ELSE [err |-> "", plan |-> plan,
             heap |-> [heap EXCEPT ![plan[target_index + 1]].dropoff_requests = @ \cup {id}]]

\* The request attached with the source index searched down from the end of
\* the plan instead of from the target index.
put_request_id_source_from_end(id, source, target, plan, heap) ==
    LET floors == plan_floors(plan, heap)
        target_index == last_index_of(floors, target, Len(plan) - 1)
        heap1 == IF target_index < 0 THEN heap
                 ELSE [heap EXCEPT ![plan[target_index + 1]].dropoff_requests = @ \cup {id}]
    IN IF target_index <= 0 THEN [err |-> "DispatchError", plan |-> plan, heap |-> heap1]
       ELSE LET source_index == last_index_of(floors, source, Len(plan) - 1)
            IN [err |-> "", plan |-> plan,
                heap |-> IF source_index < 0 THEN heap1
                         ELSE [heap1 EXCEPT ![plan[source_index + 1]].pickup_requests = @ \cup {id}]]

\* put_request_id_in_elevator_plan(request, elevator_plan): the request is
\* appended to the stop objects in place; "if not target_index" is true of
\* None and of index 0.
put_request_id_in_elevator_plan(id, source, target, plan, heap) ==
    LET floors == plan_floors(plan, heap)
        target_index == last_index_of(floors, target, Len(plan) - 1)
        heap1 == IF target_index < 0 THEN heap
                 ELSE [heap EXCEPT ![plan[target_index + 1]].dropoff_requests = @ \cup {id}]
    IN IF target_index <= 0 THEN [err |-> "DispatchError", plan |-> plan, heap |-> heap1]
       ELSE LET source_index == last_index_of(floors, source, target_index)
            IN [err |-> "", plan |-> plan,
                heap |-> IF source_index < 0 THEN heap1
                         ELSE [heap1 EXCEPT ![plan[source_index + 1]].pickup_requests = @ \cup {id}]]

\* The last elevator, in list order, of the least total time.
least_total_time_last(times) ==
    CHOOSE e \in 1..Len(times) :
        /\ \A f \in 1..Len(times) : times[e] <= times[f]
        /\ \A f \in (e + 1)..Len(times) : times[f] > times[e]

\* min(elevator_time_mapping, key=elevator_time_mapping.get): the first
\* elevator, in list order, of the least total time.
least_total_time(times) ==
    CHOOSE e \in 1..Len(times) :
        /\ \A f \in 1..Len(times) : times[e] <= times[f]
        /\ \A f \in 1..(e - 1) : times[f] > times[e]

\* One pass of the for loop of get_elevator_and_updated_plan_for_request: the
\* total time of the new plan built for the elevator.
total_time_of_plan(elevator, built, source, target) ==
    IF built.err # "" THEN [err |-> built.err, time |-> 0]
    ELSE get_total_time_for_request(elevator.current_floor,
             plan_floors(built.plan, built.heap), source, target)

\* The entry of elevator_time_mapping and elevator_plan_mapping of a pass.
mapping_entry(built, total) ==
    [err |-> total.err, time |-> total.time, plan |-> built.plan, heap |-> built.heap]

candidate_of_plan(elevator, built, source, target) ==
    mapping_entry(built, total_time_of_plan(elevator, built, source, target))

candidate_of(elevator, source, target) ==
    candidate_of_plan(elevator,
        build_updated_elevator_plan_for_request_in_elevator(elevator, source, target),
        source, target)

\* The for loop of get_elevator_and_updated_plan_for_request from elevator e
\* on: each elevator's candidate (its references, the heap the build left,
\* its total time); the loop ends at the first exception.
RECURSIVE candidates_from(_, _, _, _)
candidates_after(candidate, elevators, e, source, target) ==
    IF candidate.err # "" THEN <<candidate>>
    ELSE <<candidate>> \o candidates_from(elevators, e + 1, source, target)

candidates_from(elevators, e, source, target) ==
    IF e > Len(elevators) THEN <<>>
    ELSE candidates_after(candidate_of(elevators[e], source, target),
                          elevators, e, source, target)

\* The result of a dispatch whose candidate plans are all written to their
\* elevators.
dispatch_result_writing_candidates(elevators, candidates, chosen, put) ==
    [err |-> put.err, chosen |-> chosen,
     plan |-> plan_stops(put.plan, put.heap),
     plans |-> [e \in 1..Len(candidates) |-> plan_stops(candidates[e].plan, candidates[e].heap)],
     times |-> [e \in 1..Len(candidates) |-> candidates[e].time],
     stops |-> [e \in 1..Len(elevators) |->
                   IF e > Len(candidates) THEN elevators[e].elevator_plan
                   ELSE plan_stops(candidates[e].plan, candidates[e].heap)],
     shared |-> \E i, j \in 1..Len(put.plan) : i # j /\ put.plan[i] = put.plan[j]]

\* What a call of get_elevator_and_updated_plan_for_request leaves:
\*   err      the exception it ended in ("" if none),
\*   chosen   elevator_with_least_total_time,
\*   plan     updated_new_elevator_plan, as stop records,
\*   plans    new_elevator_plan of each elevator built (before the request is put in),
\*   times    elevator_time_mapping,
\*   stops    each elevator's own elevator_plan as the call leaves its stop
\*            objects (the candidate plans share them),
\*   shared   whether the returned plan holds one stop object twice.
dispatch_result(elevators, candidates, chosen, put) ==
    [err |-> put.err, chosen |-> chosen,
     plan |-> plan_stops(put.plan, put.heap),
     plans |-> [e \in 1..Len(candidates) |-> plan_stops(candidates[e].plan, candidates[e].heap)],
     times |-> [e \in 1..Len(candidates) |-> candidates[e].time],
     stops |-> [e \in 1..Len(elevators) |->
                   IF e > Len(candidates) THEN elevators[e].elevator_plan
                   ELSE SubSeq(IF e = chosen THEN put.heap ELSE candidates[e].heap,
                               1, Len(elevators[e].elevator_plan))],
     shared |-> \E i, j \in 1..Len(put.plan) : i # j /\ put.plan[i] = put.plan[j]]

\* The request put in the plan of the chosen elevator (0: the loop raised).
dispatch_to_chosen(elevators, id, source, target, candidates, chosen) ==
    dispatch_result(elevators, candidates, chosen,
        IF chosen = 0
        THEN [err |-> candidates[Len(candidates)].err, plan |-> <<>>, heap |-> <<>>]
        ELSE put_request_id_in_elevator_plan(id, source, target,
                 candidates[chosen].plan, candidates[chosen].heap))

dispatch_among(elevators, id, source, target, candidates) ==
    dispatch_to_chosen(elevators, id, source, target, candidates,
        IF candidates[Len(candidates)].err # "" THEN 0
        ELSE least_total_time([e \in 1..Len(candidates) |-> candidates[e].time]))

\* get_elevator_and_updated_plan_for_request(request) with every effect it has.
get_elevator_and_updated_plan_for_request(elevators, id, source, target) ==
    dispatch_among(elevators, id, source, target,
                   candidates_from(elevators, 1, source, target))

\* ------------------------------------------------------------- state
VARIABLES
    time,                    \* BuildingElevatorEngine.time
    elevators,               \* Building.elevators: name -> Elevator
    elevator_requests,       \* BuildingElevatorEngine.elevator_requests
    expected_request_count,  \* BuildingElevatorEngine.expected_request_count
    new_calls,               \* tick_time's new_calls: the rows fetched and not yet dispatched
    elevator_log_df,         \* elevator log: row index -> name -> (floor, state, passengers)
    request_log_df,          \* request log: id -> row, written by create_request_log
    pc,                      \* where run_simulation stands: "loop", "tick", "done", "error"
    error,                   \* the exception that ended the run, "" if none
    dispatched,              \* the last call of get_elevator_and_updated_plan_for_request
    computed,                \* per accepted request: the wait and travel time computed at its dispatch,
                             \* and whether its elevator stood on its source floor as its first stop
    unit                     \* a call of one dispatcher method on its own: arguments and result

vars == <<time, elevators, elevator_requests, expected_request_count, new_calls,
          elevator_log_df, request_log_df, pc, error, dispatched, computed, unit>>

\* The (source, dest) pairs a valid row can hold: source # dest.
Calls == {c \in [source_floor : Floors, target_floor : Floors] :
              c.source_floor # c.target_floor}

\* CallRequest.is_complete
is_complete(request) == request.pickup_time # UNSET /\ request.dropoff_time # UNSET

\* list_in_progress_requests()
list_in_progress_requests == SelectSeq(elevator_requests, LAMBDA r : ~is_complete(r))

\* A while condition that looks at the number of accepted requests only.
loop_condition_accepted_only == Len(elevator_requests) < expected_request_count

\* The while condition that takes a request for complete once it is picked up.
loop_condition_until_picked_up ==
    \/ Len(elevator_requests) < expected_request_count
    \/ \E i \in 1..Len(elevator_requests) : elevator_requests[i].pickup_time = UNSET

\* The while condition of run_simulation.
loop_condition ==
    Len(elevator_requests) < expected_request_count \/ list_in_progress_requests # <<>>

\* update_elevator_log(): the row of index self.time is set from the elevators.
update_elevator_log ==
    [t \in DOMAIN elevator_log_df \cup {time} |->
        IF t = time
        THEN [e \in 1..Len(elevators) |-> [floor |-> elevators[e].current_floor,
                                     status |-> elevators[e].state,
                                     passengers |-> elevators[e].passengers]]
        ELSE elevator_log_df[t]]

\* create_request_log(): one row per accepted request.
create_request_log ==
    [i \in 1..Len(elevator_requests) |->
        LET r == elevator_requests[i]
        IN [call_time |-> r.time,
            source_dest |-> <<r.source_floor, r.target_floor>>,
            pickup_time |-> r.pickup_time,
            dropoff_time |-> r.dropoff_time,
            wait_time |-> r.pickup_time - r.time,
            total_time |-> r.dropoff_time - r.time,
            elevator |-> r.elevator_name]]

\* An elevator constructed one floor below the lowest floor.
Elevator_below_lowest_floor(name, capacity) ==
    [name |-> name, state |-> "idle", current_floor |-> START_FLOOR - 1,
     passengers |-> <<>>, capacity |-> capacity, elevator_plan |-> <<>>]

\* Elevator.__init__ as Building.__init__ calls it.
Elevator(name, capacity) ==
    [name |-> name, state |-> "idle", current_floor |-> START_FLOOR,
     passengers |-> <<>>, capacity |-> capacity, elevator_plan |-> <<>>]

\* No method is called on its own in a run of the engine.
NoUnit == [op |-> "none", args |-> <<>>, done |-> FALSE, result |-> <<>>]

\* No call of the dispatcher yet.
NoDispatch == [id |-> 0, source_floor |-> 0, target_floor |-> 0, before |-> <<>>,
               result |-> [err |-> "", chosen |-> 0, plan |-> <<>>, plans |-> <<>>,
                           times |-> <<>>, stops |-> <<>>, shared |-> FALSE]]

\* BuildingElevatorEngine.__init__: the configuration and the number of rows
\* of input_df are the inputs; the rows themselves are drawn when their time comes.
Init ==
    /\ time = -1
    /\ \E number_of_elevators \in 1..MaxElevators, capacity \in 1..MaxCapacity :
           elevators = [e \in 1..number_of_elevators |-> Elevator(e, capacity)]
    /\ elevator_requests = <<>>
    /\ expected_request_count \in 1..MaxRequests
    /\ new_calls = <<>>
    /\ elevator_log_df = <<>>
    /\ request_log_df = <<>>
    /\ pc = "loop"
    /\ error = ""
    /\ dispatched = NoDispatch
    /\ computed = <<>>
    /\ unit = NoUnit

\* The pickups of the head stop stamped with pickup_time while nobody is
\* appended to passengers.
board_without_passengers(ids, passengers, requests, t) ==
    [passengers |-> passengers,
     requests |-> [i \in 1..Len(requests) |->
                      IF \E k \in 1..Len(ids) : ids[k] = i
                      THEN [requests[i] EXCEPT !.pickup_time = t]
                      ELSE requests[i]]]

\* Elevator.remove_current_floor_from_plan: the pickups of the head stop, in
\* ascending id order (the order within one stop is not observable here).
RECURSIVE board(_, _, _, _)
board(ids, passengers, requests, t) ==
    IF ids = <<>> THEN [passengers |-> passengers, requests |-> requests]
    ELSE board(Tail(ids), Append(passengers, Head(ids)),
               [requests EXCEPT ![Head(ids)].pickup_time = t], t)

\* The dropoffs of the head stop stamped with dropoff_time while the ids stay
\* in passengers.
alight_keeping_passengers(ids, passengers, requests, t) ==
    [err |-> "", passengers |-> passengers,
     requests |-> [i \in 1..Len(requests) |->
                      IF \E k \in 1..Len(ids) : ids[k] = i
                      THEN [requests[i] EXCEPT !.dropoff_time = t]
                      ELSE requests[i]]]

\* The dropoffs of the head stop: dropoff_time is set, then the id is removed
\* from passengers; list.remove of an absent id raises ValueError.
RECURSIVE alight(_, _, _, _)
alight(ids, passengers, requests, t) ==
    IF ids = <<>> THEN [err |-> "", passengers |-> passengers, requests |-> requests]
    ELSE LET stamped == [requests EXCEPT ![Head(ids)].dropoff_time = t]
         IN IF \E i \in 1..Len(passengers) : passengers[i] = Head(ids)
            THEN alight(Tail(ids), list_remove(passengers, Head(ids)), stamped, t)
            ELSE [err |-> "ValueError", passengers |-> passengers, requests |-> stamped]

\* The head stop serviced and left in the plan.
remove_current_floor_keeping_plan(elevator, requests, t) ==
    LET completed_stop == elevator.elevator_plan[1]
        b == board(set_to_seq(completed_stop.pickup_requests), elevator.passengers, requests, t)
        a == alight(set_to_seq(completed_stop.dropoff_requests), b.passengers, b.requests, t)
    IN [err |-> a.err,
        elevator |-> [elevator EXCEPT !.passengers = a.passengers],
        requests |-> a.requests]

remove_current_floor_from_plan(elevator, requests, t) ==
    LET completed_stop == elevator.elevator_plan[1]
        b == board(set_to_seq(completed_stop.pickup_requests), elevator.passengers, requests, t)
        a == alight(set_to_seq(completed_stop.dropoff_requests), b.passengers, b.requests, t)
    IN [err |-> a.err,
        elevator |-> [elevator EXCEPT !.passengers = a.passengers,
                                      !.elevator_plan = IF a.err = "" THEN Tail(@) ELSE @],
        requests |-> a.requests]

\* next(time) of an elevator that services the stop it arrives at in the tick
\* of the move.
next_servicing_on_arrival(elevator, requests, t) ==
    IF elevator.elevator_plan = <<>>
    THEN [err |-> "", elevator |-> [elevator EXCEPT !.state = "idle"], requests |-> requests]
    ELSE IF elevator.current_floor = elevator.elevator_plan[1].floor
    THEN remove_current_floor_from_plan([elevator EXCEPT !.state = "at_stop"], requests, t)
    ELSE IF abs(elevator.current_floor - elevator.elevator_plan[1].floor) = 1
    THEN remove_current_floor_from_plan(
             [elevator EXCEPT !.current_floor = elevator.elevator_plan[1].floor,
                              !.state = "at_stop"], requests, t)
    ELSE [err |-> "", requests |-> requests,
          elevator |-> [elevator EXCEPT
                           !.current_floor = @ + sign(elevator.elevator_plan[1].floor - @),
                           !.state = IF elevator.elevator_plan[1].floor > elevator.current_floor
                                     THEN "moving_upwards" ELSE "moving_downwards"]]

\* next(time) of an elevator that goes to the floor of its next stop in one tick.
next_to_stop_in_one_tick(elevator, requests, t) ==
    IF elevator.elevator_plan = <<>>
    THEN [err |-> "", elevator |-> [elevator EXCEPT !.state = "idle"], requests |-> requests]
    ELSE IF elevator.current_floor < elevator.elevator_plan[1].floor
    THEN [err |-> "", requests |-> requests,
          elevator |-> [elevator EXCEPT !.current_floor = elevator.elevator_plan[1].floor,
                                        !.state = "moving_upwards"]]
    ELSE IF elevator.current_floor > elevator.elevator_plan[1].floor
    THEN [err |-> "", requests |-> requests,
          elevator |-> [elevator EXCEPT !.current_floor = elevator.elevator_plan[1].floor,
                                        !.state = "moving_downwards"]]
    ELSE remove_current_floor_from_plan([elevator EXCEPT !.state = "at_stop"], requests, t)

\* Elevator.next(time)
next(elevator, requests, t) ==
    IF elevator.elevator_plan = <<>>
    THEN [err |-> "", elevator |-> [elevator EXCEPT !.state = "idle"], requests |-> requests]
    ELSE IF elevator.current_floor < elevator.elevator_plan[1].floor
    THEN [err |-> "", requests |-> requests,
          elevator |-> [elevator EXCEPT !.current_floor = @ + 1, !.state = "moving_upwards"]]
    ELSE IF elevator.current_floor > elevator.elevator_plan[1].floor
    THEN [err |-> "", requests |-> requests,
          elevator |-> [elevator EXCEPT !.current_floor = @ - 1, !.state = "moving_downwards"]]
    ELSE remove_current_floor_from_plan([elevator EXCEPT !.state = "at_stop"], requests, t)

\* tick_time's "for elevator in self.building.elevators: elevator.next(time)";
\* an exception leaves the later elevators as they are.
RECURSIVE next_all(_, _, _, _)
next_all(e, els, requests, t) ==
    IF e > Len(els) THEN [err |-> "", elevators |-> els, requests |-> requests]
    ELSE LET n == next(els[e], requests, t)
             els1 == [els EXCEPT ![e] = n.elevator]
         IN IF n.err # "" THEN [err |-> n.err, elevators |-> els1, requests |-> n.requests]
            ELSE next_all(e + 1, els1, n.requests, t)

\* One iteration of run_simulation's loop up to tick_time's fetch: the log
\* row is written, time advances and fetch_call_requests_at_time_t returns the
\* rows of this time, in row order.  Every row has a time in 0..MaxCallTime.
BeginTick ==
    /\ pc = "loop"
    /\ loop_condition
    /\ elevator_log_df' = update_elevator_log
    /\ time' = time + 1
    /\ \E k \in 0..(expected_request_count - Len(elevator_requests)) :
          /\ time' >= MaxCallTime => k = expected_request_count - Len(elevator_requests)
          /\ new_calls' \in [1..k -> Calls]
    /\ pc' = "tick"
    /\ UNCHANGED <<elevators, elevator_requests, expected_request_count,
                   request_log_df, error, dispatched, computed, unit>>

\* The body of tick_time's "while new_calls" after the pop, r being what the
\* dispatcher returned: update_plan, elevator_name, append.
accept_call(call_request, id, r) ==
    /\ new_calls' = SubSeq(new_calls, 1, Len(new_calls) - 1)
    /\ dispatched' = [id |-> id, source_floor |-> call_request.source_floor,
                      target_floor |-> call_request.target_floor,
                      before |-> elevators, result |-> r]
    /\ elevators' = [e \in 1..Len(elevators) |->
                        [elevators[e] EXCEPT !.elevator_plan =
                            IF r.err = "" /\ e = r.chosen THEN r.plan ELSE r.stops[e]]]
    /\ IF r.err # ""
       THEN /\ pc' = "error"
            /\ error' = r.err
            /\ UNCHANGED <<elevator_requests, computed>>
       ELSE /\ elevator_requests' = Append(elevator_requests,
                   [time |-> time, id |-> id,
                    source_floor |-> call_request.source_floor,
                    target_floor |-> call_request.target_floor,
                    pickup_time |-> UNSET, dropoff_time |-> UNSET,
                    elevator_name |-> r.chosen])
            /\ computed' = Append(computed,
                   [wait |-> get_wait_time_for_request(call_request.source_floor,
                                 stop_floors(r.plans[r.chosen]),
                                 elevators[r.chosen].current_floor).time,
                    travel |-> get_travel_time_for_request(call_request.source_floor,
                                   call_request.target_floor,
                                   stop_floors(r.plans[r.chosen])).time,
                    at_source |-> /\ elevators[r.chosen].elevator_plan # <<>>
                                  /\ elevators[r.chosen].current_floor = call_request.source_floor
                                  /\ elevators[r.chosen].elevator_plan[1].floor
                                         = call_request.source_floor])
            /\ UNCHANGED <<pc, error>>

\* One iteration of tick_time's "while new_calls": pop, dispatch, update_plan,
\* elevator_name, append.
Dispatch ==
    /\ pc = "tick"
    /\ new_calls # <<>>
    /\ accept_call(new_calls[Len(new_calls)], Len(elevator_requests) + 1,
           get_elevator_and_updated_plan_for_request(elevators, Len(elevator_requests) + 1,
               new_calls[Len(new_calls)].source_floor, new_calls[Len(new_calls)].target_floor))
    /\ UNCHANGED <<time, expected_request_count, elevator_log_df, request_log_df, unit>>

\* The rest of tick_time: every elevator's next(time), in list order.
MoveElevators ==
    /\ pc = "tick"
    /\ new_calls = <<>>
    /\ LET r == next_all(1, elevators, elevator_requests, time)
       IN /\ elevators' = r.elevators
          /\ elevator_requests' = r.requests
          /\ error' = r.err
          /\ pc' = IF r.err # "" THEN "error" ELSE "loop"
    /\ UNCHANGED <<time, expected_request_count, new_calls, elevator_log_df,
                   request_log_df, dispatched, computed, unit>>

\* run_simulation after the loop: the last log row and the request log.
Finish ==
    /\ pc = "loop"
    /\ ~loop_condition
    /\ elevator_log_df' = update_elevator_log
    /\ request_log_df' = create_request_log
    /\ pc' = "done"
    /\ UNCHANGED <<time, elevators, elevator_requests, expected_request_count,
                   new_calls, error, dispatched, computed, unit>>

Next == BeginTick \/ Dispatch \/ MoveElevators \/ Finish

Spec == Init /\ [][Next]_vars

\* run_simulation is one sequential program: a step that can be taken is taken.
FairSpec == Spec /\ WF_vars(Next)

\* ------------------------------------------------------ the scenarios
\* A run of the engine on one elevator and an input_df of one row of time 0,
\* or of that row and a row of time 2.
ScenarioCalls ==
    {c \in [source_floor : 1..ScenarioFloors, target_floor : 1..ScenarioFloors] :
         c.source_floor # c.target_floor}

ScenarioInit ==
    /\ time = -1
    /\ elevators = <<Elevator(1, ScenarioCapacity)>>
    /\ elevator_requests = <<>>
    /\ expected_request_count \in 1..2
    /\ new_calls = <<>>
    /\ elevator_log_df = <<>>
    /\ request_log_df = <<>>
    /\ pc = "loop"
    /\ error = ""
    /\ dispatched = NoDispatch
    /\ computed = <<>>
    /\ unit = NoUnit

\* BeginTick on the input_df of a scenario: the row of time 0 is fetched at
\* time 0, the second row, if there is one, at time 2.
ScenarioBeginTick ==
    /\ pc = "loop"
    /\ loop_condition
    /\ elevator_log_df' = update_elevator_log
    /\ time' = time + 1
    /\ IF time' = 0 \/ (time' = 2 /\ expected_request_count = 2)
       THEN \E call \in ScenarioCalls : new_calls' = <<call>>
       ELSE new_calls' = <<>>
    /\ pc' = "tick"
    /\ UNCHANGED <<elevators, elevator_requests, expected_request_count,
                   request_log_df, error, dispatched, computed, unit>>

ScenarioNext == ScenarioBeginTick \/ Dispatch \/ MoveElevators \/ Finish

ScenarioSpec == ScenarioInit /\ [][ScenarioNext]_vars

\* ------------------------------------------- the methods on their own
\* The plans of floors passed to get_wait_time_for_request.
FloorPlans == UNION {[1..k -> Floors] : k \in 0..MaxPlanLen}

\* The plans passed to check_capacity: a stop picks up 0..MaxCapacity requests
\* and drops off 0..MaxCapacity requests.
LoadedStops ==
    {[floor |-> START_FLOOR, pickup_requests |-> 1..a, dropoff_requests |-> 1..b] :
         a \in 0..MaxCapacity, b \in 0..MaxCapacity}

LoadedPlans == UNION {[1..k -> LoadedStops] : k \in 0..MaxPlanLen}

\* The elevators passed to check_capacity; a candidate plan is checked before
\* the request is attached, so the elevator may already be over its capacity.
LoadedElevators ==
    {[Elevator(1, capacity) EXCEPT !.passengers = [k \in 1..n |-> k]] :
         capacity \in 1..MaxCapacity, n \in 0..(MaxCapacity + 1)}

\* The plans passed to coalesce_plan: stop i picks up request i or nobody and
\* drops off request MaxPlanLen + i or nobody.
StopLists ==
    UNION {{[i \in 1..k |-> [floor |-> f[i],
                             pickup_requests |-> IF p[i] THEN {i} ELSE {},
                             dropoff_requests |-> IF d[i] THEN {MaxPlanLen + i} ELSE {}]] :
               f \in [1..k -> Floors], p \in [1..k -> BOOLEAN], d \in [1..k -> BOOLEAN]} :
           k \in 0..MaxPlanLen}

\* The plans passed to split_plan_into_ordered_subplans: stops of any floors,
\* nobody picked up or dropped off.
SplitPlans == UNION {[1..k -> {ElevatorStop(f) : f \in Floors}] : k \in 0..MaxSplitLen}

\* One method of ElevatorDispatcher is about to be called with arguments of
\* its parameter types; no engine runs.
UnitCall(op, args) == [op |-> op, args |-> args, done |-> FALSE, result |-> <<>>]

UnitInit ==
    /\ time = -1
    /\ elevators = <<>>
    /\ elevator_requests = <<>>
    /\ expected_request_count = 0
    /\ new_calls = <<>>
    /\ elevator_log_df = <<>>
    /\ request_log_df = <<>>
    /\ pc = "unit"
    /\ error = ""
    /\ dispatched = NoDispatch
    /\ computed = <<>>
    /\ \/ \E source \in Floors, floors \in FloorPlans, current_floor \in Floors :
              unit = UnitCall("get_wait_time_for_request",
                              [source |-> source, floors |-> floors,
                               current_floor |-> current_floor])
       \/ \E elevator \in LoadedElevators, stops \in LoadedPlans :
              unit = UnitCall("check_capacity", [elevator |-> elevator, stops |-> stops])
       \/ \E stops \in StopLists :
              unit = UnitCall("coalesce_plan", [stops |-> stops])
       \/ \E stops \in SplitPlans :
              unit = UnitCall("split_plan_into_ordered_subplans", [stops |-> stops])

\* The engine's variables stay as they are when a method is called on its own.
UnitReturn(result) ==
    /\ unit' = [unit EXCEPT !.done = TRUE, !.result = result]
    /\ UNCHANGED <<time, elevators, elevator_requests, expected_request_count, new_calls,
                   elevator_log_df, request_log_df, pc, error, dispatched, computed>>

Call_get_wait_time_for_request ==
    /\ unit.op = "get_wait_time_for_request"
    /\ ~unit.done
    /\ UnitReturn(get_wait_time_for_request(unit.args.source, unit.args.floors,
                                            unit.args.current_floor))

Call_check_capacity ==
    /\ unit.op = "check_capacity"
    /\ ~unit.done
    /\ UnitReturn(check_capacity(unit.args.elevator, unit.args.stops))

\* The stop objects of the list are the heap; the list holds references 1..n.
Call_coalesce_plan ==
    /\ unit.op = "coalesce_plan"
    /\ ~unit.done
    /\ UnitReturn(coalesce_plan([i \in 1..Len(unit.args.stops) |-> i], unit.args.stops))

Call_split_plan_into_ordered_subplans ==
    /\ unit.op = "split_plan_into_ordered_subplans"
    /\ ~unit.done
    /\ UnitReturn(split_plan_into_ordered_subplans(unit.args.stops,
                                                   stop_floors(unit.args.stops)))

UnitNext ==
    \/ Call_get_wait_time_for_request
    \/ Call_check_capacity
    \/ Call_coalesce_plan
    \/ Call_split_plan_into_ordered_subplans

UnitSpec == UnitInit /\ [][UnitNext]_vars

\* ------------------------------------------------------- the claims
\* The elevators the last dispatch built a candidate plan for.
Built == 1..Len(dispatched.result.plans)

\* The last step was a call of the dispatcher that returned.
Dispatched == dispatched.id # 0 /\ dispatched.result.err = ""

\* C1: when run_simulation has ended, every accepted request has its
\* pickup_time and dropoff_time set, and call time <= pickup_time <= dropoff_time.
C1_TimestampsOrderedAtEnd ==
    pc = "done" =>
        \A i \in 1..Len(elevator_requests) :
            LET r == elevator_requests[i]
            IN /\ r.pickup_time # UNSET
               /\ r.dropoff_time # UNSET
               /\ r.time <= r.pickup_time
               /\ r.pickup_time <= r.dropoff_time

\* A run that ended with two requests, one of which waited for its elevator.
C1_Witness ==
    /\ pc = "done"
    /\ Len(elevator_requests) >= 2
    /\ \E i \in 1..Len(elevator_requests) :
           elevator_requests[i].pickup_time > elevator_requests[i].time

\* C2: in every state, no elevator carries more passengers than its capacity.
C2_PassengersWithinCapacity ==
    \A e \in 1..Len(elevators) : Len(elevators[e].passengers) <= elevators[e].capacity

\* C4: in every state, no elevator plan has two adjacent stops of the same floor.
C4_PlansCoalesced ==
    \A e \in 1..Len(elevators) :
        \A i \in 1..(Len(elevators[e].elevator_plan) - 1) :
            elevators[e].elevator_plan[i].floor # elevators[e].elevator_plan[i + 1].floor

\* C5: in every state, every request in a dropoff list of a plan is in the
\* pickup list of a strictly earlier stop of that plan or among the passengers
\* of that elevator.
C5_DropoffAfterPickup ==
    \A e \in 1..Len(elevators) :
        LET plan == elevators[e].elevator_plan
        IN \A i \in 1..Len(plan) : \A r \in plan[i].dropoff_requests :
               \/ \E j \in 1..(i - 1) : r \in plan[j].pickup_requests
               \/ \E k \in 1..Len(elevators[e].passengers) : elevators[e].passengers[k] = r

\* A second request was dispatched into a plan that carries a passenger: the
\* plan holds the dropoff of the passenger and a pickup followed by its dropoff.
C5_Witness ==
    /\ Dispatched
    /\ pc = "tick"
    /\ \E e \in 1..Len(elevators) :
           LET plan == elevators[e].elevator_plan
           IN /\ dispatched.result.chosen = e
              /\ elevators[e].passengers # <<>>
              /\ \E i \in 1..Len(plan) : \E j \in 1..(i - 1) :
                     /\ dispatched.id \in plan[i].dropoff_requests
                     /\ dispatched.id \in plan[j].pickup_requests
                     /\ \E r \in plan[j].dropoff_requests : r # dispatched.id

\* C6: the dispatcher returns the elevator of the least total time (wait plus
\* travel on its own candidate plan), the first of them in list order, and
\* the returned plan is that elevator's candidate plan holding the request.
C6_LeastTotalTimeFirst ==
    Dispatched =>
        LET r == dispatched.result
            cost(e) == get_wait_time_for_request(dispatched.source_floor,
                           stop_floors(r.plans[e]), dispatched.before[e].current_floor).time
                       + get_travel_time_for_request(dispatched.source_floor,
                           dispatched.target_floor, stop_floors(r.plans[e])).time
        IN /\ Built = 1..Len(dispatched.before)
           /\ r.chosen \in Built
           /\ \A e \in Built : r.times[e] = cost(e)
           /\ \A e \in Built : cost(r.chosen) <= cost(e)
           /\ \A e \in 1..(r.chosen - 1) : cost(e) > cost(r.chosen)
           /\ stop_floors(r.plan) = stop_floors(r.plans[r.chosen])
           /\ \A i \in 1..Len(r.plan) :
                  /\ r.plans[r.chosen][i].pickup_requests \subseteq r.plan[i].pickup_requests
                  /\ r.plan[i].pickup_requests \subseteq
                         r.plans[r.chosen][i].pickup_requests \cup {dispatched.id}
                  /\ r.plans[r.chosen][i].dropoff_requests \subseteq r.plan[i].dropoff_requests
                  /\ r.plan[i].dropoff_requests \subseteq
                         r.plans[r.chosen][i].dropoff_requests \cup {dispatched.id}

\* Two busy elevators of the same total time: the first one was chosen.
C6_Witness ==
    /\ Dispatched
    /\ Len(dispatched.before) = 2
    /\ dispatched.result.times[1] = dispatched.result.times[2]
    /\ dispatched.result.chosen = 1
    /\ dispatched.before[1].elevator_plan # <<>>
    /\ dispatched.before[2].elevator_plan # <<>>

\* C10: for an elevator whose plan is empty, the candidate plan is exactly
\* a stop at the source floor followed by a stop at the target floor,
\* whatever its current floor.
C10_EmptyPlanCandidate ==
    Dispatched =>
        \A e \in Built :
            dispatched.before[e].elevator_plan = <<>> =>
                dispatched.result.plans[e] =
                    <<ElevatorStop(dispatched.source_floor), ElevatorStop(dispatched.target_floor)>>

\* A candidate was built for an idle elevator that stands between the source
\* floor and the target floor of a downward request.
C10_Witness ==
    /\ Dispatched
    /\ \E e \in Built :
           /\ dispatched.before[e].elevator_plan = <<>>
           /\ dispatched.before[e].current_floor < dispatched.source_floor
           /\ dispatched.before[e].current_floor > dispatched.target_floor

\* C3: the run ends with every request served: wherever run_simulation has
\* stopped, it has left its loop, every expected request has been accepted,
\* and every accepted request has been picked up and dropped off.
C3_StopsOnlyWhenAllServed ==
    pc \in {"done", "error"} =>
        /\ pc = "done"
        /\ Len(elevator_requests) = expected_request_count
        /\ \A i \in 1..Len(elevator_requests) : is_complete(elevator_requests[i])

\* The floors of the working plan of an elevator: its plan, after its current
\* floor when that differs from the floor of the first stop.
WorkingFloors(elevator) ==
    LET f == stop_floors(elevator.elevator_plan)
    IN IF f = <<>> THEN <<>>
       ELSE IF elevator.current_floor = f[1] THEN f
       ELSE <<elevator.current_floor>> \o f

\* The monotone subplans of the working plan, as floors; none below two stops.
Sweeps(elevator) ==
    LET w == WorkingFloors(elevator)
        parts == split_plan_into_ordered_subplans(w, w).subplans
    IN IF Len(w) < 2 THEN <<>> ELSE parts

\* A subplan of the request's direction whose closed floor interval holds the
\* source and the target.
Covers(sweep, source, target) ==
    LET first == sweep[1]
        last == sweep[Len(sweep)]
        low == IF first < last THEN first ELSE last
        high == IF first < last THEN last ELSE first
    IN /\ sign(last - first) = sign(target - source)
       /\ low <= source /\ source <= high
       /\ low <= target /\ target <= high

MatchingSweeps(elevator, source, target) ==
    {i \in 1..Len(Sweeps(elevator)) : Covers(Sweeps(elevator)[i], source, target)}

\* A sequence reversed.
Reversed(q) == [i \in 1..Len(q) |-> q[Len(q) + 1 - i]]

\* The floors of a subplan with the source and the target at their sorted
\* places, a floor that is already a stop of the subplan not repeated.
SweepWithRequest(sweep, source, target) ==
    LET all == set_to_seq({sweep[i] : i \in 1..Len(sweep)} \cup {source, target})
    IN IF target > source THEN all ELSE Reversed(all)

\* The subplans joined again, each after the first without its first stop.
RECURSIVE Joined(_, _)
Joined(sweeps, i) ==
    IF i > Len(sweeps) THEN <<>>
    ELSE (IF i = 1 THEN sweeps[i] ELSE Tail(sweeps[i])) \o Joined(sweeps, i + 1)

\* The old plan's floors with the request inserted in its earliest matching
\* subplan; the current floor stays in front only as the source floor of a
\* request inserted in the first subplan.
PlanWithRequestInSweep(elevator, source, target) ==
    LET sweeps == Sweeps(elevator)
        loc == CHOOSE i \in MatchingSweeps(elevator, source, target) :
                   \A j \in MatchingSweeps(elevator, source, target) : i <= j
        joined == Joined([i \in 1..Len(sweeps) |->
                             IF i = loc THEN SweepWithRequest(sweeps[i], source, target)
                             ELSE sweeps[i]], 1)
        prepended == elevator.current_floor # elevator.elevator_plan[1].floor
    IN IF prepended /\ ~(loc = 1 /\ source = elevator.current_floor)
       THEN Tail(joined) ELSE joined

\* The old plan's floors followed by the source and the target, the source
\* merged into the old last stop of the same floor.
PlanWithRequestAtTail(elevator, source, target) ==
    LET f == stop_floors(elevator.elevator_plan)
    IN IF f # <<>> /\ f[Len(f)] = source THEN f \o <<target>>
       ELSE f \o <<source, target>>

\* The plan of an elevator with the request inserted in its matching sweep
\* and attached to its stops, as stop records.
SweepPlanHoldingRequest(elevator, id, source, target) ==
    LET n == Len(elevator.elevator_plan)
        heap0 == stop_objects(elevator, source, target)
        split == split_plan_into_ordered_subplans(current_elevator_plan(elevator),
                     plan_floors(current_elevator_plan(elevator), heap0))
        found == find_matching_subplan_for_request(
                     [i \in 1..Len(split.subplans) |-> plan_floors(split.subplans[i], heap0)],
                     source, target)
        inserted == plan_with_request_in_subplan(current_floor_stop_repr(elevator),
                        split.subplans, found.loc, heap0, n + 2, n + 3)
        put == put_request_id_in_elevator_plan(id, source, target, inserted.plan, inserted.heap)
    IN plan_stops(put.plan, put.heap)

\* C7: when the plan with the request inserted in its matching sweep, the
\* request counted, exceeds the capacity at some stop, the candidate of that
\* elevator is the tail-append plan.
C7_TailAppendOverCapacity ==
    Dispatched =>
        \A e \in Built :
            LET el == dispatched.before[e]
            IN (/\ MatchingSweeps(el, dispatched.source_floor, dispatched.target_floor) # {}
                /\ ~check_capacity(el, SweepPlanHoldingRequest(el, dispatched.id,
                        dispatched.source_floor, dispatched.target_floor)))
               => stop_floors(dispatched.result.plans[e])
                      = PlanWithRequestAtTail(el, dispatched.source_floor, dispatched.target_floor)

\* C8: when the working plan has two stops or more and a subplan matches the
\* request, the candidate's floors are the old plan's floors with the source
\* and the target inserted in the earliest matching subplan.
C8_InsertedInEarliestSweep ==
    Dispatched =>
        \A e \in Built :
            LET el == dispatched.before[e]
            IN MatchingSweeps(el, dispatched.source_floor, dispatched.target_floor) # {}
               => stop_floors(dispatched.result.plans[e])
                      = PlanWithRequestInSweep(el, dispatched.source_floor, dispatched.target_floor)

\* C9: when no subplan of the working plan matches the request, the
\* candidate is the old plan followed by the source and the target stop, the
\* source merged into an old last stop of the same floor.
C9_AppendedAtTail ==
    Dispatched =>
        \A e \in Built :
            LET el == dispatched.before[e]
            IN MatchingSweeps(el, dispatched.source_floor, dispatched.target_floor) = {}
               => stop_floors(dispatched.result.plans[e])
                      = PlanWithRequestAtTail(el, dispatched.source_floor, dispatched.target_floor)

\* The stop old is kept in the stop new: the same floor, and every request of
\* its pickup and dropoff lists is still in the list it was in.
Keeps(new, old) ==
    /\ new.floor = old.floor
    /\ old.pickup_requests \subseteq new.pickup_requests
    /\ old.dropoff_requests \subseteq new.dropoff_requests

\* The stops old[i..] are kept, in their order, by distinct stops of new[j..]:
\* each old stop is matched with the first stop that keeps it.
RECURSIVE KeptInOrder(_, _, _, _)
KeptInOrder(old, i, new, j) ==
    IF i > Len(old) THEN TRUE
    ELSE IF j > Len(new) THEN FALSE
    ELSE IF Keeps(new[j], old[i]) THEN KeptInOrder(old, i + 1, new, j + 1)
    ELSE KeptInOrder(old, i, new, j + 1)

\* C11: for every dispatch, the stops of the chosen elevator's old plan are
\* kept in its new plan in the same order, each with the same floor and with
\* every pickup and dropoff it held before.
C11_OldPlanKeptInOrder ==
    Dispatched =>
        KeptInOrder(dispatched.before[dispatched.result.chosen].elevator_plan, 1,
                    dispatched.result.plan, 1)

\* A request was inserted before the last stop of an old plan of two stops or
\* more: the new plan is longer and its last stop does not hold the request.
C11_Witness ==
    /\ Dispatched
    /\ LET old == dispatched.before[dispatched.result.chosen].elevator_plan
           new == dispatched.result.plan
       IN /\ Len(old) >= 2
          /\ Len(new) > Len(old)
          /\ dispatched.id \notin new[Len(new)].dropoff_requests

\* C12: no request waits longer than the wait computed for it at its
\* dispatch: once picked up, pickup_time - call time <= that wait.
C12_WaitWithinComputedWait ==
    \A i \in 1..Len(elevator_requests) :
        elevator_requests[i].pickup_time # UNSET =>
            elevator_requests[i].pickup_time - elevator_requests[i].time <= computed[i].wait

\* C13: a request accepted by an elevator that stands on the request's source
\* floor, that floor being the floor of the first stop of its plan, is picked
\* up in the tick of its acceptance: once that tick's moves are done,
\* pickup_time = call time.
C13_PickedUpInTickOfAcceptance ==
    \A i \in 1..Len(elevator_requests) :
        (/\ computed[i].at_source
         /\ (time > elevator_requests[i].time \/ pc \in {"loop", "done"}))
        => elevator_requests[i].pickup_time = elevator_requests[i].time

\* The build for this elevator found a matching subplan and kept the plan with
\* the request inserted in it (the capacity check passed).
InsertedInSubplan(elevator, source, target) ==
    /\ elevator.elevator_plan # <<>>
    /\ ~(Len(elevator.elevator_plan) = 1 /\ current_floor_stop_repr(elevator) = <<>>)
    /\ LET n == Len(elevator.elevator_plan)
           heap0 == stop_objects(elevator, source, target)
           split == split_plan_into_ordered_subplans(current_elevator_plan(elevator),
                        plan_floors(current_elevator_plan(elevator), heap0))
           found == find_matching_subplan_for_request(
                        [i \in 1..Len(split.subplans) |-> plan_floors(split.subplans[i], heap0)],
                        source, target)
           inserted == plan_with_request_in_subplan(current_floor_stop_repr(elevator),
                           split.subplans, found.loc, heap0, n + 2, n + 3)
       IN /\ found.err = ""
          /\ found.loc > 0
          /\ check_capacity(elevator, plan_stops(inserted.plan, inserted.heap))

\* C14: when the request was inserted into a matching subplan of the chosen
\* elevator, the stops from its pickup stop to its dropoff stop all lie in the
\* request's direction (no reversal between boarding and alighting), so the
\* dropoff stop is the first stop at the target floor after the pickup stop.
C14_NoReversalWhileOnBoard ==
    (Dispatched /\ InsertedInSubplan(dispatched.before[dispatched.result.chosen],
                                     dispatched.source_floor, dispatched.target_floor))
    => LET plan == dispatched.result.plan
       IN \A j, k \in 1..Len(plan) :
              (dispatched.id \in plan[j].pickup_requests
               /\ dispatched.id \in plan[k].dropoff_requests)
              => /\ j < k
                 /\ \A m \in j..(k - 1) :
                        sign(plan[m + 1].floor - plan[m].floor)
                            = sign(dispatched.target_floor - dispatched.source_floor)

\* The requests an elevator holds: in a pickup or dropoff list of its plan, or
\* among its passengers.
HeldBy(elevator) ==
    UNION {elevator.elevator_plan[i].pickup_requests \cup elevator.elevator_plan[i].dropoff_requests :
               i \in 1..Len(elevator.elevator_plan)}
    \cup {elevator.passengers[k] : k \in 1..Len(elevator.passengers)}

\* Every accepted request names one elevator of the building and no other
\* elevator holds it; until the elevators move in the tick of its dispatch the
\* plan of its elevator holds its pickup and its dropoff.
OneElevatorHoldsRequest ==
    /\ \A i \in 1..Len(elevator_requests) :
           /\ elevator_requests[i].elevator_name \in 1..Len(elevators)
           /\ \A e \in 1..Len(elevators) :
                  e # elevator_requests[i].elevator_name => i \notin HeldBy(elevators[e])
    /\ pc = "tick" =>
           \A i \in 1..Len(elevator_requests) :
               elevator_requests[i].time = time =>
                   /\ \E j \in 1..Len(elevators[elevator_requests[i].elevator_name].elevator_plan) :
                          i \in elevators[elevator_requests[i].elevator_name].elevator_plan[j].pickup_requests
                   /\ \E k \in 1..Len(elevators[elevator_requests[i].elevator_name].elevator_plan) :
                          i \in elevators[elevator_requests[i].elevator_name].elevator_plan[k].dropoff_requests
    /\ (Dispatched /\ pc = "tick" /\ dispatched.id = Len(elevator_requests)
           /\ elevator_requests[dispatched.id].time = time) =>
           elevator_requests[dispatched.id].elevator_name = dispatched.result.chosen

\* A step leaves the elevator of every request accepted before it as it was.
AssignedOnce ==
    \A i \in 1..Len(elevator_requests) :
        /\ i <= Len(elevator_requests')
        /\ elevator_requests'[i].elevator_name = elevator_requests[i].elevator_name

\* C15: every accepted request is assigned to one elevator, once, at its
\* dispatch; that elevator's plan right after the dispatch holds its pickup and
\* its dropoff; no other elevator ever holds it in its plan or its passengers.
C15_AssignedToOneElevator == []OneElevatorHoldsRequest /\ [][AssignedOnce]_vars

\* A request was given to the second elevator while the first one has a plan
\* of its own.
C15_Witness ==
    /\ Dispatched
    /\ pc = "tick"
    /\ dispatched.id = Len(elevator_requests)
    /\ elevator_requests[dispatched.id].time = time
    /\ Len(elevators) = 2
    /\ dispatched.result.chosen = 2
    /\ elevators[1].elevator_plan # <<>>
    /\ dispatched.id \in HeldBy(elevators[2])

\* The requests assigned to the elevator of the given name that were picked
\* up and not yet dropped off.
OnBoard(name) ==
    {i \in 1..Len(elevator_requests) :
        /\ elevator_requests[i].elevator_name = name
        /\ elevator_requests[i].pickup_time # UNSET
        /\ elevator_requests[i].dropoff_time = UNSET}

\* C16: in every reachable state the passenger list of each elevator has no
\* duplicate ids and holds exactly the requests assigned to that elevator whose
\* pickup_time is set and whose dropoff_time is not yet set.
C16_PassengersAreThoseOnBoard ==
    \A e \in 1..Len(elevators) :
        /\ \A j, k \in 1..Len(elevators[e].passengers) :
               elevators[e].passengers[j] = elevators[e].passengers[k] => j = k
        /\ {elevators[e].passengers[k] : k \in 1..Len(elevators[e].passengers)} = OnBoard(e)

\* An elevator carries a passenger after it has dropped off another one.
C16_Witness ==
    \E e \in 1..Len(elevators) :
        /\ elevators[e].passengers # <<>>
        /\ \E i \in 1..Len(elevator_requests) :
               /\ elevator_requests[i].elevator_name = e
               /\ elevator_requests[i].dropoff_time # UNSET

\* C18: for every candidate plan the dispatcher builds,
\* get_travel_time_for_request returns at least |target - source|, so never a
\* negative time, also when the target floor occurs in the plan before the
\* pickup stop.
C18_TravelAtLeastDistance ==
    Dispatched =>
        \A e \in 1..Len(dispatched.result.plans) :
            get_travel_time_for_request(dispatched.source_floor, dispatched.target_floor,
                                        stop_floors(dispatched.result.plans[e])).time
                >= abs(dispatched.target_floor - dispatched.source_floor)

\* The method of the given name was called on its own and has returned.
Returned(op) == unit.op = op /\ unit.done

\* The sum of the moves path[k] -> path[k + 1] for k in from..(Len(path) - 1).
RECURSIVE Moves(_, _)
Moves(path, from) ==
    IF from >= Len(path) THEN 0
    ELSE abs(path[from + 1] - path[from]) + Moves(path, from + 1)

\* The position of the first stop at the given floor.
FirstStopAt(floors, floor) ==
    CHOOSE p \in 1..Len(floors) :
        floors[p] = floor /\ \A q \in 1..(p - 1) : floors[q] # floor

\* C17: get_wait_time_for_request returns, for a plan that holds the pickup
\* stop (the first stop at the source floor), the moves from current_floor
\* through the stops up to the pickup stop plus one tick for each stop before it;
\* it fails with DispatchError when the source floor is not in the plan.
C17_WaitTimeClosedForm ==
    Returned("get_wait_time_for_request") =>
        IF \E p \in 1..Len(unit.args.floors) : unit.args.floors[p] = unit.args.source
        THEN /\ unit.result.err = ""
             /\ unit.result.time =
                    Moves(<<unit.args.current_floor>>
                              \o SubSeq(unit.args.floors, 1,
                                        FirstStopAt(unit.args.floors, unit.args.source)), 1)
                    + (FirstStopAt(unit.args.floors, unit.args.source) - 1)
        ELSE unit.result.err = "DispatchError"

\* The pickup stop is the third stop, reached after a move and a reversal.
C17_Witness ==
    /\ Returned("get_wait_time_for_request")
    /\ Len(unit.args.floors) = 3
    /\ unit.args.floors[3] = unit.args.source
    /\ unit.args.floors[1] > unit.args.current_floor
    /\ unit.args.floors[2] < unit.args.floors[1]
    /\ unit.args.floors[2] # unit.args.source
    /\ unit.args.floors[1] # unit.args.source
    /\ unit.result.err = ""

\* The pickups less the dropoffs of the first k stops.
RECURSIVE NetLoad(_, _)
NetLoad(stops, k) ==
    IF k = 0 THEN 0
    ELSE NetLoad(stops, k - 1) + Cardinality(stops[k].pickup_requests)
                               - Cardinality(stops[k].dropoff_requests)

\* C19: check_capacity returns True exactly when the passenger count, started
\* at the elevator's current count and moved by |pickups| - |dropoffs| stop by
\* stop, exceeds the capacity after no stop of the plan; so it returns True for
\* the empty plan.
C19_CapacityAtEveryPrefix ==
    Returned("check_capacity") =>
        /\ unit.result =
               (\A k \in 1..Len(unit.args.stops) :
                    Len(unit.args.elevator.passengers) + NetLoad(unit.args.stops, k)
                        <= unit.args.elevator.capacity)
        /\ unit.args.stops = <<>> => unit.result = TRUE

\* A plan is rejected for the count after its first stop although the count
\* after its last stop is within the capacity of an elevator that carries
\* somebody.
C19_Witness ==
    /\ Returned("check_capacity")
    /\ unit.result = FALSE
    /\ Len(unit.args.stops) >= 2
    /\ unit.args.elevator.passengers # <<>>
    /\ Len(unit.args.elevator.passengers) <= unit.args.elevator.capacity
    /\ Len(unit.args.elevator.passengers) + NetLoad(unit.args.stops, 1)
           > unit.args.elevator.capacity
    /\ Len(unit.args.elevator.passengers) + NetLoad(unit.args.stops, Len(unit.args.stops))
           <= unit.args.elevator.capacity

\* The list without each element equal to its predecessor.
RECURSIVE Distinct(_)
Distinct(floors) ==
    IF Len(floors) <= 1 THEN floors
    ELSE IF floors[1] = floors[2] THEN Distinct(Tail(floors))
    ELSE <<floors[1]>> \o Distinct(Tail(floors))

\* The input stops of the k-th run of equal consecutive floors.
RECURSIVE RunStart(_, _)
RunStart(floors, k) ==
    IF k = 1 THEN 1
    ELSE CHOOSE i \in (RunStart(floors, k - 1) + 1)..Len(floors) :
             /\ floors[i] # floors[i - 1]
             /\ \A j \in (RunStart(floors, k - 1) + 1)..(i - 1) : floors[j] = floors[j - 1]

Run(floors, k) ==
    {i \in 1..Len(floors) :
        /\ RunStart(floors, k) <= i
        /\ k < Len(Distinct(floors)) => i < RunStart(floors, k + 1)}

\* The list coalesce_plan returned.
Coalesced == plan_stops(unit.result.plan, unit.result.heap)

\* C20: after coalesce_plan no two adjacent stops share a floor, the sequence
\* of distinct consecutive floors is that of the input, and each stop holds the
\* unions of the pickups and of the dropoffs of the input stops merged into it;
\* also for three or more consecutive stops on one floor.
C20_CoalescedToDistinctFloors ==
    Returned("coalesce_plan") =>
        /\ \A i \in 1..(Len(Coalesced) - 1) : Coalesced[i].floor # Coalesced[i + 1].floor
        /\ stop_floors(Coalesced) = Distinct(stop_floors(unit.args.stops))
        /\ \A k \in 1..Len(Coalesced) :
               /\ Coalesced[k].pickup_requests =
                      UNION {unit.args.stops[i].pickup_requests :
                                 i \in Run(stop_floors(unit.args.stops), k)}
               /\ Coalesced[k].dropoff_requests =
                      UNION {unit.args.stops[i].dropoff_requests :
                                 i \in Run(stop_floors(unit.args.stops), k)}

\* No two adjacent stops of the list share a floor.
NoAdjacentEqual(stops) ==
    \A i \in 1..(Len(stops) - 1) : stops[i].floor # stops[i + 1].floor

\* C21: coalesce_plan returns a plan without adjacent stops on one floor as it
\* is, stop objects untouched; so a second call on a result that has no such
\* stops returns that result.
C21_CoalesceIdentityOnCoalesced ==
    Returned("coalesce_plan") =>
        /\ NoAdjacentEqual(unit.args.stops) =>
               /\ Coalesced = unit.args.stops
               /\ unit.result.heap = unit.args.stops
               /\ unit.result.plan = [i \in 1..Len(unit.args.stops) |-> i]
        /\ NoAdjacentEqual(Coalesced) =>
               plan_stops(coalesce_plan(unit.result.plan, unit.result.heap).plan,
                          coalesce_plan(unit.result.plan, unit.result.heap).heap) = Coalesced

\* A plan of three stops without adjacent equal floors, one stop holding a
\* pickup, was coalesced.
C21_Witness ==
    /\ Returned("coalesce_plan")
    /\ Len(unit.args.stops) = 3
    /\ NoAdjacentEqual(unit.args.stops)
    /\ unit.args.stops[1].floor = unit.args.stops[3].floor
    /\ unit.args.stops[2].pickup_requests # {}

\* The sublist moves strictly in direction d (1 up, -1 down).
StrictlyIn(sub, d) ==
    \A i \in 1..(Len(sub) - 1) : sign(sub[i + 1].floor - sub[i].floor) = d

\* The direction of a sublist of two or more stops, by its first two stops.
DirectionOf(sub) == sign(sub[2].floor - sub[1].floor)

\* C22: for a list of two or more stops without adjacent equal floors,
\* split_plan_into_ordered_subplans returns one or more sublists, each of two
\* or more stops and strictly monotone, consecutive sublists of opposite
\* directions, each sublist after the first starting with the last stop of the
\* one before it.
C22_SubplansMonotoneAndLinked ==
    (/\ Returned("split_plan_into_ordered_subplans")
     /\ Len(unit.args.stops) >= 2
     /\ NoAdjacentEqual(unit.args.stops)) =>
        /\ unit.result.err = ""
        /\ unit.result.subplans # <<>>
        /\ \A k \in 1..Len(unit.result.subplans) :
               /\ Len(unit.result.subplans[k]) >= 2
               /\ DirectionOf(unit.result.subplans[k]) \in {1, -1}
               /\ StrictlyIn(unit.result.subplans[k], DirectionOf(unit.result.subplans[k]))
        /\ \A k \in 1..(Len(unit.result.subplans) - 1) :
               /\ DirectionOf(unit.result.subplans[k + 1]) = -DirectionOf(unit.result.subplans[k])
               /\ unit.result.subplans[k + 1][1]
                      = unit.result.subplans[k][Len(unit.result.subplans[k])]

\* A plan that goes up, down and up again was split in three.
C22_Witness ==
    /\ Returned("split_plan_into_ordered_subplans")
    /\ NoAdjacentEqual(unit.args.stops)
    /\ Len(unit.args.stops) = 4
    /\ Len(unit.result.subplans) = 3
    /\ DirectionOf(unit.result.subplans[1]) = 1

\* The sublists from the k-th on, concatenated after the first stop of each
\* but the first of all was dropped.
RECURSIVE Concatenated(_, _)
Concatenated(subplans, k) ==
    IF k > Len(subplans) THEN <<>>
    ELSE (IF k = 1 THEN subplans[k] ELSE Tail(subplans[k])) \o Concatenated(subplans, k + 1)

\* C23: for a list of two or more stops without adjacent equal floors, the
\* sublists returned by split_plan_into_ordered_subplans, concatenated after
\* dropping the first stop of every sublist but the first, are the input list.
C23_SplitThenJoinIsInput ==
    (/\ Returned("split_plan_into_ordered_subplans")
     /\ Len(unit.args.stops) >= 2
     /\ NoAdjacentEqual(unit.args.stops)) =>
        /\ unit.result.err = ""
        /\ Concatenated(unit.result.subplans, 1) = unit.args.stops

\* A plan that goes down and then up was split in two and joined again.
C23_Witness ==
    /\ Returned("split_plan_into_ordered_subplans")
    /\ NoAdjacentEqual(unit.args.stops)
    /\ Len(unit.args.stops) >= 3
    /\ Len(unit.result.subplans) = 2
    /\ DirectionOf(unit.result.subplans[1]) = -1

\* C24: for a strictly ascending or strictly descending list of two or more
\* stops, split_plan_into_ordered_subplans returns exactly one sublist, the
\* input list.
C24_MonotonePlanIsOneSubplan ==
    (/\ Returned("split_plan_into_ordered_subplans")
     /\ Len(unit.args.stops) >= 2
     /\ StrictlyIn(unit.args.stops, 1) \/ StrictlyIn(unit.args.stops, -1)) =>
        /\ unit.result.err = ""
        /\ unit.result.subplans = <<unit.args.stops>>

\* A descending plan of three stops was split.
C24_Witness ==
    /\ Returned("split_plan_into_ordered_subplans")
    /\ Len(unit.args.stops) = 3
    /\ StrictlyIn(unit.args.stops, -1)
    /\ Len(unit.result.subplans) = 1

ScenarioDone == pc = "done" /\ Len(elevators) = 1 /\ elevators[1].capacity = ScenarioCapacity

\* The accepted request i is the row (call time, source -> target).
IsCall(i, t, source, target) ==
    /\ i <= Len(elevator_requests)
    /\ elevator_requests[i].time = t
    /\ elevator_requests[i].source_floor = source
    /\ elevator_requests[i].target_floor = target

\* C26: one elevator of capacity 5 starting at floor 1 and the single request
\* {t=0, 3 -> 7}: the run ends with pickup_time 2 and dropoff_time 6.
C26_SingleRequestTimings ==
    (ScenarioDone /\ expected_request_count = 1 /\ IsCall(1, 0, 3, 7)) =>
        /\ elevator_requests[1].pickup_time = 2
        /\ elevator_requests[1].dropoff_time = 6

\* C27: one elevator of capacity 5 starting at floor 1 and the requests
\* {t=0, 3 -> 8} and {t=2, 5 -> 7}: the second is put before the first one's
\* dropoff and the run ends with pickup 2 and dropoff 8 for the first, pickup 4
\* and dropoff 6 for the second.
C27_InsertedRequestTimings ==
    (/\ expected_request_count = 2
     /\ Len(elevators) = 1
     /\ elevators[1].capacity = ScenarioCapacity
     /\ IsCall(1, 0, 3, 8)
     /\ IsCall(2, 2, 5, 7)) =>
        /\ (Dispatched /\ dispatched.id = 2) =>
               stop_floors(dispatched.result.plan) = <<3, 5, 7, 8>>
        /\ pc = "done" =>
               /\ elevator_requests[1].pickup_time = 2
               /\ elevator_requests[1].dropoff_time = 8
               /\ elevator_requests[2].pickup_time = 4
               /\ elevator_requests[2].dropoff_time = 6

\* C28: after every dispatch each stop of the chosen elevator's persisted plan
\* carries a pickup or a dropoff, so the stop that stands for the current floor
\* is not in it as a stop of its own; also when the source floor is the current
\* floor and the request is placed in a later sweep.
C28_NoEmptyStopPersisted ==
    (Dispatched /\ pc = "tick" /\ dispatched.id = Len(elevator_requests)) =>
        \A i \in 1..Len(elevators[dispatched.result.chosen].elevator_plan) :
            elevators[dispatched.result.chosen].elevator_plan[i].pickup_requests
                \cup elevators[dispatched.result.chosen].elevator_plan[i].dropoff_requests # {}

\* The step takes a fetched row off new_calls.
RowTaken == pc = "tick" /\ Len(new_calls') < Len(new_calls)

\* The step executes next() of some elevator.
ElevatorsMoved ==
    \E e \in 1..Len(elevators) :
        \/ elevators'[e].current_floor # elevators[e].current_floor
        \/ elevators'[e].state # elevators[e].state
        \/ elevators'[e].passengers # elevators[e].passengers

\* A row taken off new_calls is accepted in that step, once, as a request of
\* the current time with its plan written back; requests are accepted in no
\* other step; next() is executed only when no fetched row is left.
AcceptedInItsTick ==
    /\ RowTaken =>
           /\ Len(new_calls') = Len(new_calls) - 1
           /\ Len(elevator_requests') = Len(elevator_requests) + 1
           /\ SubSeq(elevator_requests', 1, Len(elevator_requests)) = elevator_requests
           /\ elevator_requests'[Len(elevator_requests')].time = time
           /\ elevator_requests'[Len(elevator_requests')].source_floor
                  = new_calls[Len(new_calls)].source_floor
           /\ elevator_requests'[Len(elevator_requests')].target_floor
                  = new_calls[Len(new_calls)].target_floor
           /\ \E e \in 1..Len(elevators') :
                  Len(elevator_requests') \in HeldBy(elevators'[e])
           /\ ~ElevatorsMoved
    /\ ~RowTaken => Len(elevator_requests') = Len(elevator_requests)
    /\ ElevatorsMoved => new_calls = <<>> /\ new_calls' = <<>>

\* C29: every request is accepted exactly once, in the tick of its call time,
\* and all requests of a tick are dispatched and their plans written back
\* before next() of any elevator is executed for that tick.
C29_AcceptedOnceBeforeMoving == [][AcceptedInItsTick]_vars

\* What a step does to elevator e: its floor changes by one floor at most; a
\* change is one floor towards the first stop of its plan, with the state of
\* that direction; in a tick that ends without an exception an elevator with
\* an empty plan keeps its floor and becomes idle.
OneFloorTowardsStop(e) ==
    /\ abs(elevators'[e].current_floor - elevators[e].current_floor) <= 1
    /\ elevators'[e].current_floor > elevators[e].current_floor =>
           /\ elevators[e].elevator_plan # <<>>
           /\ elevators[e].elevator_plan[1].floor > elevators[e].current_floor
           /\ elevators'[e].state = "moving_upwards"
    /\ elevators'[e].current_floor < elevators[e].current_floor =>
           /\ elevators[e].elevator_plan # <<>>
           /\ elevators[e].elevator_plan[1].floor < elevators[e].current_floor
           /\ elevators'[e].state = "moving_downwards"
    /\ (pc = "tick" /\ pc' = "loop" /\ elevators[e].elevator_plan = <<>>) =>
           /\ elevators'[e].current_floor = elevators[e].current_floor
           /\ elevators'[e].state = "idle"
    /\ (pc = "tick" /\ pc' = "loop" /\ elevators[e].elevator_plan # <<>>
           /\ elevators[e].elevator_plan[1].floor # elevators[e].current_floor) =>
           elevators'[e].current_floor # elevators[e].current_floor

\* C30: in every tick the floor of each elevator changes by one floor at most,
\* towards the first stop of its plan (up with state moving_upwards, down with
\* moving_downwards); with an empty plan the floor stays and the state becomes
\* idle.
C30_OneFloorPerTick ==
    [][\A e \in 1..Len(elevators) : OneFloorTowardsStop(e)]_vars

\* One elevator has just moved down while another, away from the start floor,
\* has become idle.
C30_Witness ==
    /\ pc = "loop"
    /\ \E e, f \in 1..Len(elevators) :
           /\ elevators[e].state = "moving_downwards"
           /\ elevators[f].state = "idle"
           /\ elevators[f].current_floor # START_FLOOR

\* The row update_elevator_log writes for the elevators as they are.
LogRowNow ==
    [e \in 1..Len(elevators) |-> [floor |-> elevators[e].current_floor,
                                  status |-> elevators[e].state,
                                  passengers |-> elevators[e].passengers]]

\* C31: the elevator log of a finished run has exactly one row for each tick
\* from 0 to the terminal tick and no row of another index; the row of the
\* terminal tick holds the elevators as that tick left them.
C31_LogRowsAreTheTicks ==
    pc = "done" =>
        /\ DOMAIN elevator_log_df = 0..time
        /\ elevator_log_df[time] = LogRowNow

\* The step is the movement phase of a tick: next() of the elevators.
MovementPhase == pc = "tick" /\ new_calls = <<>>

\* Elevator e stands on the floor of the first stop of its plan.
AtHeadStop(e) ==
    /\ elevators[e].elevator_plan # <<>>
    /\ elevators[e].elevator_plan[1].floor = elevators[e].current_floor

\* C37: an elevator never services a stop whose dropoff list holds a request
\* that is not among its passengers (those boarding at that stop included);
\* the removal of a dropped-off id from the passengers never fails.
C37_DropoffOnlyOfPassengers ==
    [][MovementPhase =>
          /\ pc' # "error"
          /\ \A e \in 1..Len(elevators) :
                 AtHeadStop(e) =>
                     elevators[e].elevator_plan[1].dropoff_requests \subseteq
                         {elevators[e].passengers[k] : k \in 1..Len(elevators[e].passengers)}
                         \cup elevators[e].elevator_plan[1].pickup_requests]_vars

\* A stop has just been serviced at which one request was dropped off and
\* another picked up.
C37_Witness ==
    /\ pc = "loop"
    /\ \E i, j \in 1..Len(elevator_requests) :
           /\ elevator_requests[i].dropoff_time = time
           /\ elevator_requests[j].pickup_time = time
           /\ elevator_requests[i].elevator_name = elevator_requests[j].elevator_name

\* The ids in the passenger list of an elevator record.
PassengerSet(elevator) == {elevator.passengers[k] : k \in 1..Len(elevator.passengers)}

\* What the movement phase does to elevator e standing on its head stop.
HeadStopServiced(e) ==
    /\ elevators'[e].state = "at_stop"
    /\ elevators'[e].current_floor = elevators[e].current_floor
    /\ elevators'[e].elevator_plan = Tail(elevators[e].elevator_plan)
    /\ PassengerSet(elevators'[e]) =
           (PassengerSet(elevators[e]) \cup elevators[e].elevator_plan[1].pickup_requests)
               \ elevators[e].elevator_plan[1].dropoff_requests
    /\ \A i \in 1..Len(elevator_requests) :
           elevator_requests[i].elevator_name = e =>
               /\ elevator_requests'[i].pickup_time =
                      IF i \in elevators[e].elevator_plan[1].pickup_requests
                      THEN time ELSE elevator_requests[i].pickup_time
               /\ elevator_requests'[i].dropoff_time =
                      IF i \in elevators[e].elevator_plan[1].dropoff_requests
                      THEN time ELSE elevator_requests[i].dropoff_time

\* C32: a tick of an elevator standing on the floor of its head stop sets the
\* state at_stop, sets pickup_time to the tick's time for the stop's pickups
\* and adds them to passengers, sets dropoff_time for its dropoffs and removes
\* them from passengers, removes exactly the head stop and leaves current_floor
\* and the rest of the plan as they were.
C32_HeadStopServiced ==
    [][MovementPhase => \A e \in 1..Len(elevators) : AtHeadStop(e) => HeadStopServiced(e)]_vars

\* An elevator has serviced a stop, picking somebody up, and has stops left.
C32_Witness ==
    /\ pc = "loop"
    /\ \E e \in 1..Len(elevators) :
           /\ elevators[e].state = "at_stop"
           /\ elevators[e].elevator_plan # <<>>
           /\ Len(elevators[e].passengers) >= 2
           /\ \E i \in 1..Len(elevator_requests) :
                  /\ elevator_requests[i].elevator_name = e
                  /\ elevator_requests[i].pickup_time = time

\* The positions of the stops of request i's elevator that hold i as a pickup,
\* and those that hold it as a dropoff.
PickupStops(i) ==
    {j \in 1..Len(elevators[elevator_requests[i].elevator_name].elevator_plan) :
        i \in elevators[elevator_requests[i].elevator_name].elevator_plan[j].pickup_requests}

DropoffStops(i) ==
    {j \in 1..Len(elevators[elevator_requests[i].elevator_name].elevator_plan) :
        i \in elevators[elevator_requests[i].elevator_name].elevator_plan[j].dropoff_requests}

\* C33: a request not yet picked up is in the pickup list of exactly one stop
\* and in the dropoff list of exactly one later stop of its elevator's plan; a
\* boarded request is in exactly one dropoff list and in no pickup list; a
\* completed request is in no plan.
C33_RequestsInPlanByProgress ==
    \A i \in 1..Len(elevator_requests) :
        /\ \A e \in 1..Len(elevators) :
               e # elevator_requests[i].elevator_name =>
                   i \notin UNION {elevators[e].elevator_plan[j].pickup_requests
                                       \cup elevators[e].elevator_plan[j].dropoff_requests :
                                   j \in 1..Len(elevators[e].elevator_plan)}
        /\ IF elevator_requests[i].pickup_time = UNSET
           THEN /\ Cardinality(PickupStops(i)) = 1
                /\ Cardinality(DropoffStops(i)) = 1
                /\ \A j \in PickupStops(i) : \A k \in DropoffStops(i) : j < k
           ELSE IF elevator_requests[i].dropoff_time = UNSET
           THEN /\ PickupStops(i) = {}
                /\ Cardinality(DropoffStops(i)) = 1
           ELSE PickupStops(i) = {} /\ DropoffStops(i) = {}

\* One elevator has a request waiting, a request on board and a completed one.
C33_Witness ==
    \E i, j, k \in 1..Len(elevator_requests) :
        /\ elevator_requests[i].elevator_name = elevator_requests[j].elevator_name
        /\ elevator_requests[j].elevator_name = elevator_requests[k].elevator_name
        /\ elevator_requests[i].pickup_time = UNSET
        /\ elevator_requests[j].pickup_time # UNSET
        /\ elevator_requests[j].dropoff_time = UNSET
        /\ elevator_requests[k].dropoff_time # UNSET

\* The step is a call of the dispatcher that returns.
DispatchReturns == pc = "tick" /\ new_calls # <<>> /\ pc' = "tick"

\* C34: a dispatch changes only the plan of the chosen elevator: the plan, the
\* current floor, the state and the passengers of every other elevator, and
\* the floor, state and passengers of the chosen one, are after it as before.
C34_OnlyChosenPlanChanges ==
    [][DispatchReturns =>
          \A e \in 1..Len(elevators) :
              IF e = dispatched'.result.chosen
              THEN elevators'[e] = [elevators[e] EXCEPT !.elevator_plan = elevators'[e].elevator_plan]
              ELSE elevators'[e] = elevators[e]]_vars

\* A dispatch has returned that built and coalesced a candidate plan for an
\* elevator with a plan of its own and then chose the other elevator.
C34_Witness ==
    /\ Dispatched
    /\ pc = "tick"
    /\ dispatched.id = Len(elevator_requests)
    /\ \E e \in 1..Len(dispatched.result.plans) :
           /\ e # dispatched.result.chosen
           /\ dispatched.before[e].elevator_plan # <<>>
           /\ Len(dispatched.result.plans[e]) < Len(dispatched.before[e].elevator_plan) + 2
           /\ elevators[e] = dispatched.before[e]

\* C35: no call of the dispatcher ends in an error: neither a DispatchError
\* nor a failure of another kind in split, matching, costing or attachment.
C35_NoDispatchFails ==
    [][(pc = "tick" /\ new_calls # <<>>) => (pc' # "error" /\ error' = "")]_vars

\* Every row was accepted and request i is the last one given to its elevator.
LastOfItsElevator(i) ==
    /\ Len(elevator_requests) = expected_request_count
    /\ \A j \in (i + 1)..Len(elevator_requests) :
           elevator_requests[j].elevator_name # elevator_requests[i].elevator_name

\* C36: the costs used to choose the elevator are those of the stops the
\* request is attached to: when no later request is given to its elevator, the
\* request's pickup_time - call time is the wait computed at its dispatch and
\* its dropoff_time - pickup_time is the computed travel plus the tick of dwell
\* at the pickup stop.
C36_RealisedTimesAreComputedCosts ==
    \A i \in 1..Len(elevator_requests) :
        LastOfItsElevator(i) =>
            /\ elevator_requests[i].pickup_time # UNSET =>
                   elevator_requests[i].pickup_time - elevator_requests[i].time
                       = computed[i].wait
            /\ elevator_requests[i].dropoff_time # UNSET =>
                   elevator_requests[i].dropoff_time - elevator_requests[i].pickup_time
                       = computed[i].travel + 1

\* What the movement phase does to an elevator e that is not on the floor of
\* its head stop: its plan and passengers stay, and so do the times of its
\* requests.
OnlyFloorAndStateChange(e) ==
    /\ elevators'[e].elevator_plan = elevators[e].elevator_plan
    /\ elevators'[e].passengers = elevators[e].passengers
    /\ elevators'[e].capacity = elevators[e].capacity
    /\ elevators'[e].name = elevators[e].name
    /\ elevators'[e].current_floor # elevators[e].current_floor
    /\ \A i \in 1..Len(elevator_requests) :
           elevator_requests[i].elevator_name = e =>
               elevator_requests'[i] = elevator_requests[i]

\* C38: a tick in which an elevator moves (its floor is not that of its head
\* stop) changes only its current_floor and state: its plan, its passengers
\* and the pickup_time and dropoff_time of its requests stay as they were.
C38_MoveChangesFloorAndStateOnly ==
    [][MovementPhase =>
          \A e \in 1..Len(elevators) :
              (elevators[e].elevator_plan # <<>> /\ ~AtHeadStop(e)) =>
                  OnlyFloorAndStateChange(e)]_vars

\* An elevator with passengers and two or more stops ahead has just moved.
C38_Witness ==
    /\ pc = "loop"
    /\ \E e \in 1..Len(elevators) :
           /\ elevators[e].state \in {"moving_upwards", "moving_downwards"}
           /\ elevators[e].passengers # <<>>
           /\ Len(elevators[e].elevator_plan) >= 2

\* C39: when the loop of run_simulation has exited, every elevator has no
\* passengers and an empty plan: no stop is left unserved.
C39_NothingLeftAtTermination ==
    pc = "done" =>
        \A e \in 1..Len(elevators) :
            elevators[e].passengers = <<>> /\ elevators[e].elevator_plan = <<>>

\* A run of three requests served by two elevators has ended.
C39_Witness ==
    /\ pc = "done"
    /\ Len(elevator_requests) = 3
    /\ \E i, j \in 1..Len(elevator_requests) :
           elevator_requests[i].elevator_name # elevator_requests[j].elevator_name
    /\ \A e \in 1..Len(elevators) : elevators[e].current_floor # START_FLOOR

\* The state of an elevator as Building.__init__ leaves it.
AsConstructed(elevator) ==
    /\ elevator.current_floor = 1
    /\ elevator.state = "idle"
    /\ elevator.passengers = <<>>
    /\ elevator.elevator_plan = <<>>

\* C40: all elevators start at floor 1, idle, with no passengers and an empty
\* plan, and with every request's source and target floor in
\* 1..number_of_floors, in every reachable state every elevator's
\* current_floor and every stop floor of every plan (the elevators' plans and
\* the plans the dispatcher built in its last call) lie in 1..number_of_floors.
C40_FloorsStayInTheBuilding ==
    /\ time = -1 => \A e \in 1..Len(elevators) : AsConstructed(elevators[e])
    /\ \A e \in 1..Len(elevators) :
           /\ elevators[e].current_floor \in 1..NumFloors
           /\ \A k \in 1..Len(elevators[e].elevator_plan) :
                  elevators[e].elevator_plan[k].floor \in 1..NumFloors
    /\ \A e \in 1..Len(dispatched.result.plans) :
           \A k \in 1..Len(dispatched.result.plans[e]) :
               dispatched.result.plans[e][k].floor \in 1..NumFloors

\* An elevator on the top floor with a stop on the lowest floor in its plan,
\* while another elevator is on the lowest floor.
C40_Witness ==
    /\ time > 0
    /\ \E e, o \in 1..Len(elevators) :
           /\ elevators[e].current_floor = NumFloors
           /\ \E k \in 1..Len(elevators[e].elevator_plan) :
                  elevators[e].elevator_plan[k].floor = 1
           /\ elevators[o].current_floor = 1

====
